---- MODULE Spec2Model ----
(***************************************************************************)
(* The no-swim-zone Cloud Function of src/main.py as a state machine.      *)
(*                                                                         *)
(* The module-level startup (lines 35-43) loads one GeoJSON document into  *)
(* the global geojson_data; afterwards any number of HTTP requests are     *)
(* handled by check_swim_zone (lines 62-124), which calls                  *)
(* check_no_swim_zone (lines 46-59).  Requests are handled by the workers  *)
(* of the hosting runtime, which interleave freely; each worker's position *)
(* in the handler is pc[w].                                                *)
(*                                                                         *)
(* Coordinates are integers in units of half a degree, so that the point   *)
(* (0.5, 0.5) is <<1, 1>> and the square (0,0)-(4,4) is (0,0)-(8,8).       *)
(* A coordinate value is a record [k, v]: k = "fin" with the value v,      *)
(* k = "nan" or "inf" for the two kinds of non-finite float, and           *)
(* k = "none" for a parameter the request does not carry.                  *)
(***************************************************************************)
EXTENDS Integers, Sequences, FiniteSets

VARIABLES
    blob,          \* the object in the bucket (the environment's input)
    library,       \* what the geometry library does with a non-finite
                   \* point: answers "false" or "raise"s
    phase,         \* position of the module-level code: lines 37-43
    geojson_data,  \* the module global of lines 38 and 43
    writes,        \* number of assignments made to geojson_data so far
    published,     \* the value geojson_data had when serving began
    pc,            \* per worker: "idle", "scan" (loop of line 54), "done"
    request,       \* per worker: the method and body of the request
    latitude,      \* per worker: the handler's local latitude
    longitude,     \* per worker: the handler's local longitude
    point,         \* per worker: Point(longitude, latitude) of line 48
    idx,           \* per worker: index of the feature the loop is at
    lookup,        \* per worker: check_no_swim_zone is "none" (not
                   \* called), "running", "returned" or "raised"
    in_zone,       \* per worker: first value check_no_swim_zone returned
    zone_details,  \* per worker: second value check_no_swim_zone returned
    response       \* per worker: the response of the request just handled

vars == <<blob, library, phase, geojson_data, writes, published, pc, request,
          latitude, longitude, point, idx, lookup, in_zone, zone_details,
          response>>

\* What the startup code leaves alone in the workers, and the requests in
\* the startup's state.
workerVars == <<pc, request, latitude, longitude, point, idx, lookup, in_zone,
                zone_details, response>>
startupVars == <<blob, library, phase, geojson_data, writes, published>>

Workers == {"w1", "w2"}

\* Longest feature list of a document.
MaxFeatures == 2

-----------------------------------------------------------------------------
(* Coordinate values *)

Fin(v) == [k |-> "fin", v |-> v]
NaN == [k |-> "nan", v |-> 0]
Inf == [k |-> "inf", v |-> 0]
NoneValue == [k |-> "none", v |-> 0]

FiniteValues == {1, 4, 20}
FiniteCoords == {Fin(v) : v \in FiniteValues}

\* The <<latitude, longitude>> pairs requests carry: every finite pair, a
\* NaN or an infinity in either place or both, and a missing parameter in
\* either place or both.
Queries ==
    (FiniteCoords \X FiniteCoords)
    \cup { <<NaN, Fin(1)>>, <<Fin(1), Inf>>, <<Inf, Fin(20)>>, <<NaN, Inf>> }
    \cup { <<NoneValue, Fin(1)>>, <<Fin(4), NoneValue>>, <<NoneValue, NoneValue>> }

IsFinite(c) == c.k = "fin"

-----------------------------------------------------------------------------
(* Geometries: GeoJSON coordinates members.  A ring is a closed sequence   *)
(* of positions <<x, y>> = <<longitude, latitude>>; a Polygon is a         *)
(* sequence of rings, the first the exterior and the rest the holes; a     *)
(* MultiPolygon is a sequence of Polygons.                                 *)

Rect(x1, y1, x2, y2) ==
    << <<x1, y1>>, <<x2, y1>>, <<x2, y2>>, <<x1, y2>>, <<x1, y1>> >>

\* outer (0,0),(4,0),(4,4),(0,4) with hole (1,1),(1,3),(3,3),(3,1), in degrees
HoledSquare ==
    << Rect(0, 0, 8, 8),
       << <<2, 2>>, <<2, 6>>, <<6, 6>>, <<6, 2>>, <<2, 2>> >> >>

\* a strip along the x axis, wide in longitude and narrow in latitude; its
\* upper edge is y = 4
Strip == << Rect(0, 0, 24, 4) >>

\* the square without its hole
FullSquare == << Rect(0, 0, 8, 8) >>

\* two parts: a square around (20,20), and a box whose lower edge is y = 1
Islands == << << Rect(18, 18, 22, 22) >>, << Rect(18, 1, 22, 6) >> >>

GeometryType(g) == IF g = "islands" THEN "MultiPolygon" ELSE "Polygon"

\* The polygons of a geometry: one for a Polygon, the parts of a MultiPolygon.
Polygons(g) ==
    CASE g = "holed" -> << HoledSquare >>
      [] g = "strip" -> << Strip >>
      [] g = "square" -> << FullSquare >>
      [] g = "islands" -> Islands

-----------------------------------------------------------------------------
(* point.within(zone), line 56: the point lies in the interior of the      *)
(* zone, computed as the geometry library does: each ring is located by    *)
(* ray crossing, a polygon from its shell and then its holes.              *)

Min(a, b) == IF a < b THEN a ELSE b
Max(a, b) == IF a < b THEN b ELSE a

OnSegment(p, a, b) ==
    /\ (b[1] - a[1]) * (p[2] - a[2]) = (b[2] - a[2]) * (p[1] - a[1])
    /\ Min(a[1], b[1]) <= p[1] /\ p[1] <= Max(a[1], b[1])
    /\ Min(a[2], b[2]) <= p[2] /\ p[2] <= Max(a[2], b[2])

\* The ray from p towards +x crosses the edge a-b.
RayCrosses(p, a, b) ==
    /\ (a[2] > p[2]) # (b[2] > p[2])
    /\ LET dy == b[2] - a[2]
           t == (p[1] - a[1]) * dy - (p[2] - a[2]) * (b[1] - a[1])
       IN  IF dy > 0 THEN t < 0 ELSE t > 0

Edges(ring) == 1 .. (Len(ring) - 1)

OnRing(p, ring) == \E i \in Edges(ring) : OnSegment(p, ring[i], ring[i + 1])

Crossings(p, ring) ==
    Cardinality({i \in Edges(ring) : RayCrosses(p, ring[i], ring[i + 1])})

LocateInRing(p, ring) ==
    IF OnRing(p, ring) THEN "boundary"
    ELSE IF Crossings(p, ring) % 2 = 1 THEN "interior"
    ELSE "exterior"

Holes(poly) == {poly[i] : i \in 2 .. Len(poly)}

\* A polygon read with its holes dropped.
LocateIgnoringHoles(p, poly) == LocateInRing(p, poly[1])

LocateInPolygon(p, poly) ==
    LET shell == LocateInRing(p, poly[1])
    IN  IF shell # "interior" THEN shell
        ELSE IF \E h \in Holes(poly) : LocateInRing(p, h) = "boundary"
             THEN "boundary"
        ELSE IF \E h \in Holes(poly) : LocateInRing(p, h) = "interior"
             THEN "exterior"
        ELSE "interior"

Within(p, g) ==
    \E i \in 1 .. Len(Polygons(g)) : LocateInPolygon(p, Polygons(g)[i]) = "interior"

-----------------------------------------------------------------------------
(* Features.  geometry is a geometry id, or "missing" when the feature has *)
(* no 'geometry' key.  properties is "missing" (no 'properties' key),      *)
(* "null" (JSON null), or the value the properties object gives for        *)
(* 'Column1.compliance': "absent" (no such key), "false", "true", "zero",  *)
(* "empty" (the empty string), "nullvalue" (JSON null), "text" (a          *)
(* non-empty string).                                                      *)

Feature(g, p) == [geometry |-> g, properties |-> p]

NoFeature == Feature("missing", "missing")

Catalogue ==
    { Feature("holed", "false"),
      Feature("strip", "true"),
      Feature("islands", "absent"),
      Feature("missing", "absent"),
      Feature("square", "null") }

HasGeometry(f) == f.geometry # "missing"
HasProperties(f) == f.properties # "missing"
PropertiesIsObject(f) == f.properties \notin {"missing", "null"}

SeqsUpTo(S, n) == UNION {[1 .. k -> S] : k \in 0 .. n}

-----------------------------------------------------------------------------
(* Documents.  kind: "download_error" (the download raises),               *)
(* "invalid_json" (json.loads raises), "array" (valid JSON, not an         *)
(* object), "object".  For an object, fkind tells its 'features' member:   *)
(* "absent", "null" or "list", and features is the list.                   *)

Doc(kind, fkind, fs) == [kind |-> kind, fkind |-> fkind, features |-> fs]

Unbound == Doc("unbound", "absent", <<>>)
None == Doc("None", "absent", <<>>)

BlobsOver(cat) ==
    { Doc("download_error", "absent", <<>>),
      Doc("invalid_json", "absent", <<>>),
      Doc("array", "absent", <<>>),
      Doc("object", "absent", <<>>),
      Doc("object", "null", <<>>) }
    \cup { Doc("object", "list", fs) : fs \in SeqsUpTo(cat, MaxFeatures) }

Blobs == BlobsOver(Catalogue)

\* One region under every kind of 'Column1.compliance' value.
LabelCatalogue ==
    { Feature("strip", v) :
        v \in {"absent", "false", "true", "zero", "empty", "nullvalue", "text"} }

-----------------------------------------------------------------------------
(* Module-level startup, lines 35-43 *)

\* load_geojson_from_gcs raises: the download fails or json.loads rejects
\* the text (lines 22-25, re-raised at line 32).
LoadRaises(b) == b.kind \in {"download_error", "invalid_json"}

\* Line 39 raises: geojson_data.get needs a dict, len needs a sized value.
CountRaises(data) == data.kind # "object" \/ data.fkind = "null"

\* Line 38: geojson_data = load_geojson_from_gcs(...)
LoadGeojson ==
    /\ phase = "load"
    /\ IF LoadRaises(blob)
       THEN /\ phase' = "except"
            /\ UNCHANGED <<geojson_data, writes>>
       ELSE /\ geojson_data' = blob
            /\ writes' = writes + 1
            /\ phase' = "loaded"
    /\ UNCHANGED <<blob, library, published, workerVars>>

\* Line 39: print(... len(geojson_data.get('features', [])) ...)
PrintFeatureCount ==
    /\ phase = "loaded"
    /\ IF CountRaises(geojson_data)
       THEN /\ phase' = "except"
            /\ UNCHANGED published
       ELSE /\ phase' = "serving"
            /\ published' = geojson_data
    /\ UNCHANGED <<blob, library, geojson_data, writes, workerVars>>

\* Lines 40-43 without the assignment of line 43.
StartupFailedKeeping ==
    /\ phase = "except"
    /\ published' = geojson_data
    /\ phase' = "serving"
    /\ UNCHANGED <<blob, library, geojson_data, writes, workerVars>>

\* Lines 40-43: except Exception: geojson_data = None
StartupFailed ==
    /\ phase = "except"
    /\ geojson_data' = None
    /\ writes' = writes + 1
    /\ published' = None
    /\ phase' = "serving"
    /\ UNCHANGED <<blob, library, workerVars>>

-----------------------------------------------------------------------------
(* Responses of check_swim_zone *)

Coordinates(lat, lon) == [latitude |-> lat, longitude |-> lon]

NoResponse ==
    [status |-> 0, error |-> "", in_no_swim_zone |-> FALSE,
     coordinates |-> Coordinates(NoneValue, NoneValue),
     zone_details |-> "", zone_geometry |-> "",
     compliance_status |-> "", compliance_warning |-> FALSE]

\* Lines 67-74: ('', 204, headers)
Preflight == [NoResponse EXCEPT !.status = 204]

\* jsonify({'error': ...}), status, headers
ErrorResponse(status, msg) ==
    [NoResponse EXCEPT !.status = status, !.error = msg]

\* Lines 114-119: compliance is False -> NON_COMPLIANT; truthy -> COMPLIANT;
\* anything else (None, 0, "") -> UNKNOWN.
ComplianceStatus(compliance) ==
    IF compliance = "false" THEN "NON_COMPLIANT"
    ELSE IF compliance \in {"true", "text"} THEN "COMPLIANT"
    ELSE "UNKNOWN"

\* Lines 100-106 and 121: the result without zone keys.
PlainResult(lat, lon, found) ==
    [NoResponse EXCEPT !.status = 200, !.in_no_swim_zone = found,
                       !.coordinates = Coordinates(lat, lon)]

\* Lines 100-124 after check_no_swim_zone has returned (found, zone).
\* A returned feature is a non-empty dict, so "in_zone and zone_details"
\* is in_zone.  zone_details['properties'] raises KeyError without the key
\* (line 110); None.get raises AttributeError (line 114); both reach the
\* handler of lines 123-124.
BuildResult(lat, lon, found, zone) ==
    IF ~found THEN PlainResult(lat, lon, FALSE)
    ELSE IF ~HasProperties(zone) THEN ErrorResponse(500, "KeyError")
    ELSE IF ~PropertiesIsObject(zone) THEN ErrorResponse(500, "AttributeError")
    ELSE [PlainResult(lat, lon, TRUE) EXCEPT
            !.zone_details = zone.properties,
            !.zone_geometry = zone.geometry,
            !.compliance_status = ComplianceStatus(zone.properties),
            !.compliance_warning = (zone.properties = "false")]

-----------------------------------------------------------------------------
(* check_no_swim_zone, lines 46-59 *)

\* Point(latitude, longitude): the arguments in the caller's order.
MakePointLatFirst(lat, lon) == [x |-> lat, y |-> lon]

\* Line 48: Point(longitude, latitude)
MakePoint(lat, lon) == [x |-> lon, y |-> lat]

NoPoint == [x |-> NoneValue, y |-> NoneValue]

PointIsFinite(pt) == IsFinite(pt.x) /\ IsFinite(pt.y)

XY(pt) == <<pt.x.v, pt.y.v>>

\* Line 51 without the None test.
NothingToScanUnlessNone(data) == data.kind # "None" /\ data.fkind # "list"

\* Line 51: geojson_data is None or "features" not in geojson_data
NothingToScan(data) == data.kind = "None" \/ data.fkind # "list"

\* geojson_data["features"] of line 54 raises TypeError on None.
SubscriptRaises(data) == data.kind = "None"

\* The list iterated from its end.
FeatureFromEnd(data, i) == data.features[Len(data.features) + 1 - i]

\* Line 54: the i-th feature the loop takes.
FeatureAt(data, i) == data.features[i]

\* Lines 55-56 for one feature: "raise", "true" or "false".  A feature
\* without 'geometry' raises KeyError.  A point with a NaN or infinite
\* coordinate is never reported as contained; whether the library answers
\* False or raises is a property of the library build (lib).
TestOutcome(pt, feature, lib) ==
    IF ~HasGeometry(feature) THEN "raise"
    ELSE IF ~PointIsFinite(pt) THEN lib
    ELSE IF Within(XY(pt), feature.geometry) THEN "true"
    ELSE "false"

-----------------------------------------------------------------------------
(* check_swim_zone, lines 62-124 *)

\* A request: its method (PUT stands for every method other than GET, POST
\* and OPTIONS) and what request.get_json() makes of its body: "object" (an
\* object with the two members, each possibly absent), "falsy" (a falsy
\* value), "unparseable" (get_json raises); "none" when it is not a POST.
Request(method, body) == [method |-> method, body |-> body]

NoRequest == Request("", "none")

\* The pairs JSON bodies carry: a finite pair, a non-finite one, and one
\* with a member missing.  After line 94 a POST is handled as a GET is.
PostQueries == { <<Fin(1), Fin(1)>>, <<NaN, Fin(1)>>, <<NoneValue, Fin(1)>> }

\* What a request can carry: any method; a body when it is a POST; a pair
\* of parameters when they are read.
Requests ==
    { <<Request(m, "none"), <<NoneValue, NoneValue>> >> : m \in {"OPTIONS", "PUT"} }
    \cup { <<Request("POST", b), <<NoneValue, NoneValue>> >> : b \in {"falsy", "unparseable"} }
    \cup { <<Request("GET", "none"), q>> : q \in Queries }
    \cup { <<Request("POST", "object"), q>> : q \in PostQueries }

\* Line 94 with "and" for "or".
BothMissing(lat, lon) == lat = NoneValue /\ lon = NoneValue

\* Line 94: latitude is None or longitude is None
MissingParameter(lat, lon) == lat = NoneValue \/ lon = NoneValue

\* The handler returns r.
Finish(w, r) ==
    /\ response' = [response EXCEPT ![w] = r]
    /\ pc' = [pc EXCEPT ![w] = "done"]

\* check_no_swim_zone returns (found, zone) and lines 100-124 build the
\* response from it.
ReturnFromLookup(w, found, zone) ==
    /\ lookup' = [lookup EXCEPT ![w] = "returned"]
    /\ in_zone' = [in_zone EXCEPT ![w] = found]
    /\ zone_details' = [zone_details EXCEPT ![w] = zone]
    /\ Finish(w, BuildResult(latitude[w], longitude[w], found, zone))

\* check_no_swim_zone raises and line 124 answers.
RaiseFromLookup(w, msg) ==
    /\ lookup' = [lookup EXCEPT ![w] = "raised"]
    /\ Finish(w, ErrorResponse(500, msg))
    /\ UNCHANGED <<in_zone, zone_details>>

\* Lines 66-98 and 48-52: the request is read and checked,
\* check_no_swim_zone is entered, and it returns at once when there is
\* nothing to scan.
Receive(w) ==
    /\ phase = "serving"
    /\ pc[w] = "idle"
    /\ \E r \in Requests :
         LET method == r[1].method
             body == r[1].body
             lat == r[2][1]
             lon == r[2][2]
             quit(resp) ==
                /\ response' = [response EXCEPT ![w] = resp]
                /\ pc' = [pc EXCEPT ![w] = "done"]
                /\ UNCHANGED <<point, lookup, in_zone, zone_details, idx>>
         IN
         /\ request' = [request EXCEPT ![w] = r[1]]
         /\ IF method = "OPTIONS" THEN
               /\ quit(Preflight)
               /\ UNCHANGED <<latitude, longitude>>
            ELSE IF method \notin {"GET", "POST"} THEN
               /\ quit(ErrorResponse(405, "Method not allowed"))
               /\ UNCHANGED <<latitude, longitude>>
            ELSE IF method = "POST" /\ body = "unparseable" THEN
               /\ quit(ErrorResponse(500, "BadRequest"))
               /\ UNCHANGED <<latitude, longitude>>
            ELSE IF method = "POST" /\ body = "falsy" THEN
               /\ quit(ErrorResponse(400, "Invalid JSON"))
               /\ UNCHANGED <<latitude, longitude>>
            ELSE
               /\ latitude' = [latitude EXCEPT ![w] = lat]
               /\ longitude' = [longitude EXCEPT ![w] = lon]
               /\ IF MissingParameter(lat, lon) THEN
                     quit(ErrorResponse(400, "Missing latitude or longitude parameters"))
                  ELSE
                     /\ point' = [point EXCEPT ![w] = MakePoint(lat, lon)]
                     /\ IF NothingToScan(geojson_data) THEN
                           /\ lookup' = [lookup EXCEPT ![w] = "returned"]
                           /\ response' = [response EXCEPT ![w] =
                                             BuildResult(lat, lon, FALSE, NoFeature)]
                           /\ pc' = [pc EXCEPT ![w] = "done"]
                           /\ UNCHANGED <<in_zone, zone_details, idx>>
                        ELSE IF SubscriptRaises(geojson_data) THEN
                           /\ lookup' = [lookup EXCEPT ![w] = "raised"]
                           /\ response' = [response EXCEPT ![w] =
                                             ErrorResponse(500, "TypeError")]
                           /\ pc' = [pc EXCEPT ![w] = "done"]
                           /\ UNCHANGED <<in_zone, zone_details, idx>>
                        ELSE
                           /\ lookup' = [lookup EXCEPT ![w] = "running"]
                           /\ idx' = [idx EXCEPT ![w] = 1]
                           /\ pc' = [pc EXCEPT ![w] = "scan"]
                           /\ UNCHANGED <<in_zone, zone_details, response>>
    /\ UNCHANGED startupVars

\* One iteration of the loop of lines 54-57, removing the feature it
\* matches from the list.
ScanFeatureConsuming(w) ==
    /\ pc[w] = "scan"
    /\ idx[w] <= Len(geojson_data.features)
    /\ LET feature == FeatureAt(geojson_data, idx[w])
           o == TestOutcome(point[w], feature, library)
       IN  CASE o = "raise" ->
                  /\ RaiseFromLookup(w, "Exception")
                  /\ UNCHANGED <<idx, geojson_data>>
             [] o = "true" ->
                  /\ ReturnFromLookup(w, TRUE, feature)
                  /\ geojson_data' =
                        [geojson_data EXCEPT !.features =
                            SubSeq(@, 1, idx[w] - 1) \o SubSeq(@, idx[w] + 1, Len(@))]
                  /\ UNCHANGED idx
             [] o = "false" ->
                  /\ idx' = [idx EXCEPT ![w] = idx[w] + 1]
                  /\ UNCHANGED <<pc, lookup, in_zone, zone_details, response,
                                 geojson_data>>
    /\ UNCHANGED <<blob, library, phase, writes, published, request, latitude,
                   longitude, point>>

\* One iteration of the loop of lines 54-57.
ScanFeature(w) ==
    /\ pc[w] = "scan"
    /\ idx[w] <= Len(geojson_data.features)
    /\ LET feature == FeatureAt(geojson_data, idx[w])
           o == TestOutcome(point[w], feature, library)
       IN  CASE o = "raise" ->
                  /\ RaiseFromLookup(w, "Exception")
                  /\ UNCHANGED idx
             [] o = "true" ->
                  /\ ReturnFromLookup(w, TRUE, feature)
                  /\ UNCHANGED idx
             [] o = "false" ->
                  /\ idx' = [idx EXCEPT ![w] = idx[w] + 1]
                  /\ UNCHANGED <<pc, lookup, in_zone, zone_details, response>>
    /\ UNCHANGED <<startupVars, request, latitude, longitude, point>>

\* Line 59: the loop ended without a match.
LoopExhausted(w) ==
    /\ pc[w] = "scan"
    /\ idx[w] > Len(geojson_data.features)
    /\ ReturnFromLookup(w, FALSE, NoFeature)
    /\ UNCHANGED <<startupVars, request, latitude, longitude, point, idx>>

\* The response has been sent; the worker takes the next request.
Return(w) ==
    /\ pc[w] = "done"
    /\ pc' = [pc EXCEPT ![w] = "idle"]
    /\ request' = [request EXCEPT ![w] = NoRequest]
    /\ latitude' = [latitude EXCEPT ![w] = NoneValue]
    /\ longitude' = [longitude EXCEPT ![w] = NoneValue]
    /\ point' = [point EXCEPT ![w] = NoPoint]
    /\ idx' = [idx EXCEPT ![w] = 0]
    /\ lookup' = [lookup EXCEPT ![w] = "none"]
    /\ in_zone' = [in_zone EXCEPT ![w] = FALSE]
    /\ zone_details' = [zone_details EXCEPT ![w] = NoFeature]
    /\ response' = [response EXCEPT ![w] = NoResponse]
    /\ UNCHANGED startupVars

-----------------------------------------------------------------------------

InitOver(blobs) ==
    /\ blob \in blobs
    /\ library \in {"false", "raise"}
    /\ phase = "load"
    /\ geojson_data = Unbound
    /\ writes = 0
    /\ published = Unbound
    /\ pc = [w \in Workers |-> "idle"]
    /\ request = [w \in Workers |-> NoRequest]
    /\ latitude = [w \in Workers |-> NoneValue]
    /\ longitude = [w \in Workers |-> NoneValue]
    /\ point = [w \in Workers |-> NoPoint]
    /\ idx = [w \in Workers |-> 0]
    /\ lookup = [w \in Workers |-> "none"]
    /\ in_zone = [w \in Workers |-> FALSE]
    /\ zone_details = [w \in Workers |-> NoFeature]
    /\ response = [w \in Workers |-> NoResponse]

Init == InitOver(Blobs)

Next ==
    \/ LoadGeojson
    \/ PrintFeatureCount
    \/ StartupFailed
    \/ \E w \in Workers : Receive(w)
    \/ \E w \in Workers : ScanFeature(w)
    \/ \E w \in Workers : LoopExhausted(w)
    \/ \E w \in Workers : Return(w)

Spec == Init /\ [][Next]_vars

\* The same service over documents whose regions differ in their
\* 'Column1.compliance' value only.
InitLabels == InitOver(BlobsOver(LabelCatalogue))

SpecLabels == InitLabels /\ [][Next]_vars

-----------------------------------------------------------------------------
(* Vocabulary of the properties *)

Features == geojson_data.features

Done(w) == pc[w] = "done"

\* check_no_swim_zone has been entered with a list of features to scan.
Scanned(w) == lookup[w] # "none" /\ geojson_data.fkind = "list"

\* The feature's geometry contains the point <<x, y>>.
Contains(f, pt) ==
    HasGeometry(f) /\ PointIsFinite(pt) /\ Within(XY(pt), f.geometry)

\* The request's parameters were read into latitude and longitude.
ParametersRead(w) ==
    \/ request[w].method = "GET"
    \/ request[w].method = "POST" /\ request[w].body = "object"

-----------------------------------------------------------------------------
\* C1: whenever check_no_swim_zone returns a match, the feature returned is
\* the one with the smallest index in 'features' whose geometry contains
\* the point, the loop has stopped at that index (no later feature was
\* examined), and no earlier feature contains the point; whenever it
\* returns no match, the loop has run through the whole list and no feature
\* contains the point.
FirstMatchOrdering ==
    \A w \in Workers :
        lookup[w] = "returned" /\ geojson_data.fkind = "list" =>
            IF in_zone[w]
            THEN /\ idx[w] \in 1 .. Len(Features)
                 /\ zone_details[w] = Features[idx[w]]
                 /\ Contains(Features[idx[w]], point[w])
                 /\ \A j \in 1 .. (idx[w] - 1) : ~Contains(Features[j], point[w])
            ELSE /\ idx[w] = Len(Features) + 1
                 /\ zone_details[w] = NoFeature
                 /\ \A j \in 1 .. Len(Features) : ~Contains(Features[j], point[w])

\* Two different regions both contain the point and the first was returned.
FirstOfTwoReturned ==
    \E w \in Workers :
        /\ lookup[w] = "returned" /\ in_zone[w] /\ idx[w] = 1
        /\ Len(Features) >= 2
        /\ Features[1] # Features[2]
        /\ Contains(Features[2], point[w])

-----------------------------------------------------------------------------
(* The containment rule of C2, stated on rings: a point is inside a ring   *)
(* when it is off the ring and a ray from it crosses the ring an odd       *)
(* number of times, outside when it is off the ring and the number is      *)
(* even.                                                                   *)

InsideRing(p, ring) == ~OnRing(p, ring) /\ Crossings(p, ring) % 2 = 1
OutsideRing(p, ring) == ~OnRing(p, ring) /\ Crossings(p, ring) % 2 = 0

PolygonRule(p, poly) ==
    /\ InsideRing(p, poly[1])
    /\ \A i \in 2 .. Len(poly) : OutsideRing(p, poly[i])

GeometryRule(p, g) ==
    IF GeometryType(g) = "Polygon"
    THEN PolygonRule(p, Polygons(g)[1])
    ELSE \E i \in 1 .. Len(Polygons(g)) : PolygonRule(p, Polygons(g)[i])

Pt(x, y) == [x |-> Fin(x), y |-> Fin(y)]

\* C2: for a finite point, every feature the loop has passed over has a
\* geometry that does not contain the point under the rule "inside the
\* outer ring and outside every hole" (for a MultiPolygon: under that rule
\* in no part), and a feature returned as the match contains it under that
\* rule (for a MultiPolygon: in at least one part).  With the holed square
\* alone, (2,2) is no match, (0.5,0.5) is a match and (10,10) is no match.
HoleAndUnionContainment ==
    \A w \in Workers :
        /\ Scanned(w) /\ PointIsFinite(point[w]) =>
              /\ \A j \in 1 .. (idx[w] - 1) :
                    /\ HasGeometry(Features[j])
                    /\ ~GeometryRule(XY(point[w]), Features[j].geometry)
              /\ in_zone[w] => /\ HasGeometry(Features[idx[w]])
                               /\ GeometryRule(XY(point[w]), Features[idx[w]].geometry)
        /\ lookup[w] = "returned" /\ Features = << Feature("holed", "false") >> =>
              /\ point[w] = Pt(4, 4) => ~in_zone[w]
              /\ point[w] = Pt(1, 1) => in_zone[w]
              /\ point[w] = Pt(20, 20) => ~in_zone[w]

\* One query falls in the hole of the holed square and matches nothing;
\* another lies in the second part of the multipolygon and matches it.
HoleMissedAndPartHit ==
    \E w1, w2 \in Workers :
        /\ lookup[w1] = "returned" /\ ~in_zone[w1] /\ point[w1] = Pt(4, 4)
        /\ \E j \in 1 .. Len(Features) : Features[j].geometry = "holed"
        /\ lookup[w2] = "returned" /\ in_zone[w2]
        /\ zone_details[w2].geometry = "islands"
        /\ LocateInPolygon(XY(point[w2]), Islands[2]) = "interior"

-----------------------------------------------------------------------------
\* C3: a request whose latitude or longitude is NaN or infinite is answered
\* with an error, never with a 200 result (match or no match).
InvalidPointRejected ==
    \A w \in Workers :
        /\ Done(w) /\ ParametersRead(w)
        /\ ~MissingParameter(latitude[w], longitude[w])
        /\ ~(IsFinite(latitude[w]) /\ IsFinite(longitude[w]))
        => response[w].status # 200

-----------------------------------------------------------------------------
EmptyOrAbsent ==
    geojson_data = None \/ geojson_data.fkind # "list" \/ Features = <<>>

-----------------------------------------------------------------------------
\* C5: once the startup load has completed without raising, every query
\* with a finite point is answered 200 (a definite match or no match),
\* never with an error response.
QueryTotalAfterLoad ==
    \A w \in Workers :
        /\ Done(w) /\ lookup[w] # "none" /\ PointIsFinite(point[w])
        /\ ~LoadRaises(blob) /\ ~CountRaises(blob)
        => response[w].status = 200

-----------------------------------------------------------------------------
\* The label C6 gives a region: from the value of 'Column1.compliance',
\* UNKNOWN when there is none.
ClaimedLabel(f) ==
    IF f.properties = "false" THEN "NON_COMPLIANT"
    ELSE IF f.properties \in {"true", "text"} THEN "COMPLIANT"
    ELSE "UNKNOWN"

\* C6: every matched region gets exactly one of the three labels, the one
\* its 'Column1.compliance' gives, and compliance_warning is present iff
\* the label is NON_COMPLIANT.
LabelForEveryMatch ==
    \A w \in Workers :
        Done(w) /\ lookup[w] = "returned" /\ in_zone[w] =>
            /\ response[w].status = 200
            /\ response[w].compliance_status = ClaimedLabel(zone_details[w])
            /\ response[w].compliance_warning
                  <=> response[w].compliance_status = "NON_COMPLIANT"

\* Whenever the matched region's properties is an object, the response is a
\* 200 with the label of lines 114-119 (checked under SpecLabels as well).
LabelWhenPropertiesIsObject ==
    \A w \in Workers :
        Done(w) /\ lookup[w] = "returned" /\ in_zone[w]
        /\ PropertiesIsObject(zone_details[w]) =>
            /\ response[w].status = 200
            /\ response[w].compliance_status = ClaimedLabel(zone_details[w])
            /\ response[w].compliance_status
                  \in {"NON_COMPLIANT", "COMPLIANT", "UNKNOWN"}
            /\ response[w].compliance_warning
                  <=> response[w].compliance_status = "NON_COMPLIANT"

-----------------------------------------------------------------------------
\* C7: the point tested has x = the request's longitude and y = its
\* latitude; for finite coordinates check_no_swim_zone returns a match
\* exactly when some feature contains <<longitude, latitude>>; and a 200
\* response echoes the coordinates under the names they came in.
AxisOrder ==
    \A w \in Workers :
        /\ lookup[w] # "none" =>
              point[w].x = longitude[w] /\ point[w].y = latitude[w]
        /\ /\ lookup[w] = "returned" /\ geojson_data.fkind = "list"
           /\ IsFinite(latitude[w]) /\ IsFinite(longitude[w])
           => (in_zone[w] <=>
                 \E j \in 1 .. Len(Features) :
                    /\ HasGeometry(Features[j])
                    /\ Within(<<longitude[w].v, latitude[w].v>>, Features[j].geometry))
        /\ Done(w) /\ response[w].status = 200 =>
              response[w].coordinates = Coordinates(latitude[w], longitude[w])

\* A match for a point whose mirror image <<latitude, longitude>> lies in
\* no region.
MatchOnlyInLonLatOrder ==
    \E w \in Workers :
        /\ Done(w) /\ response[w].status = 200 /\ response[w].in_no_swim_zone
        /\ IsFinite(latitude[w]) /\ IsFinite(longitude[w])
        /\ latitude[w] # longitude[w]
        /\ \A j \in 1 .. Len(Features) :
              HasGeometry(Features[j]) =>
                 ~Within(<<latitude[w].v, longitude[w].v>>, Features[j].geometry)

-----------------------------------------------------------------------------
\* C8: while requests are served the collection equals the one published
\* at load, whatever queries have run or are running; and two handled
\* requests that are identical have identical results.
QueryPurity ==
    /\ phase = "serving" => geojson_data = published
    /\ \A w1, w2 \in Workers :
          /\ Done(w1) /\ Done(w2)
          /\ request[w1] = request[w2]
          /\ latitude[w1] = latitude[w2] /\ longitude[w1] = longitude[w2]
          => /\ response[w1] = response[w2]
             /\ lookup[w1] = lookup[w2]
             /\ in_zone[w1] = in_zone[w2]
             /\ zone_details[w1] = zone_details[w2]

\* The same query has been answered twice with a match, and the collection
\* is as published.
SameMatchTwice ==
    \E w1, w2 \in Workers :
        /\ w1 # w2 /\ Done(w1) /\ Done(w2)
        /\ request[w1] = request[w2]
        /\ latitude[w1] = latitude[w2] /\ longitude[w1] = longitude[w2]
        /\ lookup[w1] = "returned" /\ in_zone[w1]
        /\ geojson_data = published /\ Len(Features) = MaxFeatures

-----------------------------------------------------------------------------
NoRequestYet ==
    \A w \in Workers : pc[w] = "idle" /\ lookup[w] = "none"

\* C9 as stated: geojson_data has been assigned exactly once when serving
\* begins, no request is handled before that, and it keeps its value
\* afterwards.
WrittenExactlyOnce ==
    /\ phase # "serving" => NoRequestYet
    /\ phase = "serving" => writes = 1 /\ geojson_data = published

\* C9 as amended: geojson_data is assigned only by the startup code, before
\* any request is handled: once, or twice when line 39 raises after the
\* assignment of line 38, the second assignment being None; it keeps its
\* value while requests are served.
WrittenOnlyAtStartup ==
    /\ phase # "serving" => NoRequestYet
    /\ writes <= 2
    /\ phase = "serving" =>
          /\ writes = (IF ~LoadRaises(blob) /\ CountRaises(blob) THEN 2 ELSE 1)
          /\ writes = 2 => geojson_data = None
          /\ geojson_data = published
          /\ geojson_data # Unbound

\* Line 39 raised after line 38 had assigned, and a request has been
\* answered since.
AssignedTwiceThenServed ==
    /\ phase = "serving" /\ writes = 2
    /\ \E w \in Workers : Done(w) /\ lookup[w] = "returned"

-----------------------------------------------------------------------------
ZoneKeys(r) ==
    /\ r.zone_details # ""
    /\ r.zone_geometry # ""
    /\ r.compliance_status # ""

NoZoneKeys(r) ==
    /\ r.zone_details = ""
    /\ r.zone_geometry = ""
    /\ r.compliance_status = ""

\* C10: OPTIONS is answered 204, a method other than GET, POST and OPTIONS
\* 405, a GET or POST whose latitude or longitude is None 400, each without
\* check_no_swim_zone being invoked; a 200 response is produced only when
\* both coordinates are present; and a 200 response carries zone_details,
\* zone_geometry and compliance_status iff in_no_swim_zone is true.
ValidationPrecedesMatching ==
    \A w \in Workers :
        /\ pc[w] # "idle" /\ request[w].method = "OPTIONS" =>
              Done(w) /\ response[w].status = 204 /\ lookup[w] = "none"
        /\ pc[w] # "idle" /\ request[w].method \notin {"GET", "POST", "OPTIONS"} =>
              Done(w) /\ response[w].status = 405 /\ lookup[w] = "none"
        /\ /\ pc[w] # "idle" /\ ParametersRead(w)
           /\ (latitude[w] = NoneValue \/ longitude[w] = NoneValue)
           => Done(w) /\ response[w].status = 400 /\ lookup[w] = "none"
        /\ lookup[w] # "none" =>
              /\ ParametersRead(w)
              /\ latitude[w] # NoneValue /\ longitude[w] # NoneValue
        /\ Done(w) /\ response[w].status = 200 =>
              /\ lookup[w] = "returned"
              /\ latitude[w] # NoneValue /\ longitude[w] # NoneValue
              /\ IF response[w].in_no_swim_zone
                 THEN ZoneKeys(response[w])
                 ELSE NoZoneKeys(response[w])

\* One request was refused for a missing parameter while another was
\* answered with a zone.
RefusedAndAnswered ==
    \E w1, w2 \in Workers :
        /\ Done(w1) /\ response[w1].status = 400
        /\ ParametersRead(w1) /\ longitude[w1] = NoneValue
        /\ latitude[w1] # NoneValue
        /\ Done(w2) /\ response[w2].status = 200
        /\ response[w2].in_no_swim_zone

=============================================================================
